---- MODULE Spec2Model ----
(***************************************************************************)
(* The unscramble game of CIS17C_Project1/main.cpp as a state machine.     *)
(*                                                                         *)
(* The state is main()'s locals (score, highestScore, streak, maxStreak,   *)
(* words, wordCount), the global achievements array, the locals of the     *)
(* round in progress in playGame(score, ...) (difficulty, word,            *)
(* attemptsLeft, hintsUsed, guess), the locals of scrambleWord, the state  *)
(* of cin (its failbit), the two dictionary files on disk, and what the    *)
(* last step wrote to cout.  One action is one input    *)
(* read from the terminal together with everything the program does until  *)
(* it waits for the next input; the placeholder playGame() that the main   *)
(* loop calls at the top of every iteration is a step of its own.          *)
(*                                                                         *)
(* A word is a tuple of one-character strings.  Array indices are 0-based  *)
(* as in the source.  The array words is kept as the sequence of its slots *)
(* up to the last one written; the slots after it hold the empty string    *)
(* they were constructed with.                                             *)
(***************************************************************************)
EXTENDS Integers, Sequences, FiniteSets, TLC

VARIABLES
    pc,            \* where main() is: "start", "loading", "top", "menu", "guess", "done", "crashed"
    score,         \* main: int score
    highestScore,  \* main: int highestScore
    streak,        \* main: int streak
    maxStreak,     \* main: int maxStreak
    words,         \* main: array<string, maxWords> words, without its trailing empty strings
    wordCount,     \* main: size_t wordCount
    achieved,      \* achievements[i].achieved, i in 0..numAchievements-1
    announced,     \* how many times achievement i's unlock line was written to cout
    difficulty,    \* playGame: int difficulty (0 outside a round)
    word,          \* playGame: the word to guess (<< >> outside a round)
    attemptsLeft,  \* playGame: int attemptsLeft (0 outside a round)
    hintsUsed,     \* playGame: int hintsUsed (0 outside a round)
    guess,         \* playGame: string guess (<< >> outside a round)
    cinFail,       \* cin's failbit
    dictLen,       \* number of tokens in dictionary.txt
    dict2Len,      \* number of tokens in dictionary2.txt
    load,          \* loadWords: the file, its stream, count and startIndex
    maxSlot,       \* highest index i for which loadWords evaluated words[i]; -1 before any load
    anagram,       \* scrambleWord: string anagram (<< >> outside scrambleWord)
    j,             \* scrambleWord: the loop index j (0 outside scrambleWord)
    out            \* the lines the last step wrote to cout, as tags

vars == << pc, score, highestScore, streak, maxStreak, words, wordCount,
           achieved, announced, word, attemptsLeft, hintsUsed, guess, cinFail,
           dictLen, dict2Len, load, maxSlot, out, difficulty, anagram, j >>

----------------------------------------------------------------------------
(* Program constants, main.cpp lines 64-71 and 96.                         *)

maxWords == 200
easyMinLength == 3
easyMaxLength == 5
mediumMinLength == 6
mediumMaxLength == 8
hardMinLength == 9
hintCost == 1
maxHintsPerWord == 2
numAchievements == 4

(* Bounds of the model.                                                    *)

\* Rounds can be started while highestScore is below this.
MaxScore == 50
\* Hints are asked for while the score is below this.
MaxHintScore == 10
\* Under SpecFilter the store holds up to MaxListLen words of 1..MaxWordLen
\* letters.
MaxListLen == 3
MaxWordLen == 10
\* Under SpecScramble scrambleWord is given words of up to this many letters.
MaxScrambleLen == 4
\* dictionary.txt (when it has any) and dictionary2.txt hold this many
\* tokens under Spec.
MaxDictLen == 2
\* Under SpecStore a file holds up to maxWords + MaxExtra tokens.
MaxExtra == 1
\* Under Spec the shop loads words while the store holds fewer than this.
MaxStoreWords == 3

----------------------------------------------------------------------------
(* Inputs.                                                                 *)

\* The tokens of dictionary.txt repeat this list, those of dictionary2.txt
\* ("more difficult words") that one.
DictionaryWords ==
    << <<"h","i","n","t">>, <<"p","l","a","n","e","t">> >>

Dictionary2Words ==
    << <<"w","o","n","d","e","r","f","u","l">>, <<"a","b">> >>

\* Token i (1-based) of a file.
FileToken(file, i) ==
    IF file = "dictionary.txt"
    THEN DictionaryWords[((i - 1) % Len(DictionaryWords)) + 1]
    ELSE Dictionary2Words[((i - 1) % Len(Dictionary2Words)) + 1]

\* What the player can type at "Enter your choice" of the difficulty menu.
Difficulties == 0..4

\* The numbers the player can type at the main menu, the shop menu and the
\* hint menu; text that is no number is the NonNumeric case of each action.
MenuOptions == 0..4
ShopOptions == 0..2
HintChoices == 0..4

\* The values an int can hold that no extraction has written (useHint's
\* hintChoice when cin has already failed).
IntValues == 0..4

\* The keyword compared with the guess at line 481.
hintWord == <<"h","i","n","t">>

\* A token that is neither the keyword nor a word of either file.
wrongWord == <<"z","z","z">>

\* What the player can type at "Guess the word".
GuessInputs(w) == {hintWord, w, wrongWord}

----------------------------------------------------------------------------
(* loadWords, lines 583-600.                                               *)

InCapacityInclusive(n) == n <= maxWords

\* The second condition of the loop at line 592.
InCapacity(n) == n < maxWords

\* words[i], for the array kept as arr.
Slot(arr, i) == IF i < Len(arr) THEN arr[i + 1] ELSE << >>

\* The array after words[i] = w.
StoreAt(arr, i, w) ==
    [p \in 1..(IF i + 1 > Len(arr) THEN i + 1 ELSE Len(arr)) |->
        IF p = i + 1 THEN w ELSE Slot(arr, p - 1)]

\* loadWords is not running.
NoLoad == [file |-> "", avail |-> 0, read |-> 0, count |-> 0, startIndex |-> 0]

\* The locals of a call of loadWords on entry: avail is the number of tokens
\* the stream will deliver (0 when the file could not be opened), read the
\* number extracted so far.
LoadCall(file, avail, startIndex) ==
    [file |-> file, avail |-> avail, read |-> 0, count |-> startIndex,
     startIndex |-> startIndex]

loadedCountFromZero(l) == l.count

\* return count - startIndex, line 599.
loadedCount(l) == l.count - l.startIndex

----------------------------------------------------------------------------
(* Difficulty bands and the filter, lines 322-361.                         *)

isEasyWordNoMinimum(w) == Len(w) <= easyMaxLength

isEasyWord(w) == Len(w) >= easyMinLength /\ Len(w) <= easyMaxLength

isMediumWord(w) == Len(w) >= mediumMinLength /\ Len(w) <= mediumMaxLength

isHardWord(w) == Len(w) >= hardMinLength

MatchesDifficultyHardElse(w, level) ==
    \/ level = 1 /\ isEasyWord(w)
    \/ level = 2 /\ isMediumWord(w)
    \/ level >= 3 /\ isHardWord(w)

\* The condition of the if at lines 353-355.
MatchesDifficulty(w, level) ==
    \/ level = 1 /\ isEasyWord(w)
    \/ level = 2 /\ isMediumWord(w)
    \/ level = 3 /\ isHardWord(w)

\* The loop of filterWordsByDifficulty from index i on; filtered is
\* filteredWords[0 .. filteredCount-1] so far.
RECURSIVE FilterLoop(_, _, _, _, _)
FilterLoop(arr, count, level, i, filtered) ==
    IF i >= count
    THEN filtered
    ELSE FilterLoop(arr, count, level, i + 1,
                    IF MatchesDifficulty(Slot(arr, i), level)
                    THEN Append(filtered, Slot(arr, i))
                    ELSE filtered)

filterWordsByDifficulty(arr, count, level) ==
    FilterLoop(arr, count, level, 0, << >>)

----------------------------------------------------------------------------
(* useHint, lines 374-416.                                                 *)

hintLimitOffByOne(h) == h > maxHintsPerWord

\* The check at line 377.
hintLimitReached(h) == h >= maxHintsPerWord

\* The choices the if-chain at lines 389-401 serves.
validHintChoice(c) == c \in {1, 2, 3}

hintLine(c) ==
    IF c = 1 THEN "First letter: "
    ELSE IF c = 2 THEN "Word length: "
    ELSE "Revealed letter at position "

useHintNoReturn(h, sc, c) ==
    IF ~validHintChoice(c)
    THEN [hintsUsed |-> h + 1, score |-> sc - hintCost,
          out |-> << "Invalid hint choice.", "Hint cost deducted. Current score: " >>]
    ELSE [hintsUsed |-> h + 1, score |-> sc - hintCost,
          out |-> << hintLine(c), "Hint cost deducted. Current score: " >>]

useHintClamped(h, sc, c) ==
    IF ~validHintChoice(c)
    THEN [hintsUsed |-> h, score |-> sc, out |-> << "Invalid hint choice." >>]
    ELSE [hintsUsed |-> h + 1,
          score |-> IF sc > 0 THEN sc - hintCost ELSE sc,
          out |-> << hintLine(c), "Hint cost deducted. Current score: " >>]

\* useHint after the limit check, with hintChoice = c: lines 388-415.
useHintChoice(h, sc, c) ==
    IF ~validHintChoice(c)
    THEN [hintsUsed |-> h, score |-> sc, out |-> << "Invalid hint choice." >>]
    ELSE [hintsUsed |-> h + 1,
          score |-> sc - hintCost,
          out |-> << hintLine(c), "Hint cost deducted. Current score: " >>]

----------------------------------------------------------------------------
(* Scoring, lines 493-510, 520-528, 623-653.                               *)

comboBonusSingle(s) == s

\* int comboBonus = streak * 2, line 497.
comboBonus(s) == s * 2

updateScoreNoHigh(isCorrect, sc, high, points) ==
    IF isCorrect
    THEN [score |-> sc + points, highestScore |-> high]
    ELSE [score |-> sc - 1, highestScore |-> high]

updateScoreOverwrite(isCorrect, sc, high, points) ==
    IF isCorrect
    THEN [score |-> sc + points, highestScore |-> sc + points]
    ELSE [score |-> sc - 1, highestScore |-> high]

\* updateScore, lines 633-653.
updateScore(isCorrect, sc, high, points) ==
    IF isCorrect
    THEN [score |-> sc + points,
          highestScore |-> IF sc + points > high THEN sc + points ELSE high]
    ELSE [score |-> sc - 1, highestScore |-> high]

correctGuessNoCarry(w, sc, high, s, maxS) ==
    LET points == Len(w) + comboBonus(s)
        u == updateScore(TRUE, sc, high, points)
    IN [points |-> points,
        streak |-> 1,
        maxStreak |-> IF s + 1 > maxS THEN s + 1 ELSE maxS,
        score |-> u.score,
        highestScore |-> u.highestScore]

\* The correct-guess branch, lines 493-518.
correctGuess(w, sc, high, s, maxS) ==
    LET points == Len(w) + comboBonus(s)
        u == updateScore(TRUE, sc, high, points)
    IN [points |-> points,
        streak |-> s + 1,
        maxStreak |-> IF s + 1 > maxS THEN s + 1 ELSE maxS,
        score |-> u.score,
        highestScore |-> u.highestScore]

incorrectGuessKeepsStreak(att, s) ==
    [attemptsLeft |-> att - 1, streak |-> IF att - 1 > 0 THEN s ELSE 0]

\* The incorrect-guess branch, lines 520-528.
incorrectGuess(att, s) == [attemptsLeft |-> att - 1, streak |-> 0]

handleGameOverKeepsDebt(sc) == IF sc > 0 THEN 0 ELSE sc

\* handleGameOver, lines 623-630: the new score.
handleGameOver(sc) == 0

----------------------------------------------------------------------------
(* Achievements, lines 98-126 and 683-753.                                 *)

AchievementIds == 0..(numAchievements - 1)

UnlocksWhenever(ach, i, cond) == cond

\* The guard of each if in updateAchievements.
Unlocks(ach, i, cond) == cond /\ ~ach[i]

achievementLine(i) ==
    IF i = 0 THEN "Congratulations! You earned the achievement: First Win!"
    ELSE IF i = 1 THEN "Amazing! You earned the achievement: Hint Master!"
    ELSE IF i = 2 THEN "Impressive! You earned the achievement: High Scorer!"
    ELSE "Fast thinking! You earned the achievement: Quick Thinker!"

\* The condition of achievement i, without the !achieved part.
AchievementCondition(i, wonGame, sc, hints, timeTaken) ==
    IF i = 0 THEN wonGame
    ELSE IF i = 1 THEN wonGame /\ hints = 0
    ELSE IF i = 2 THEN sc >= 50
    ELSE wonGame /\ timeTaken <= 30

\* The four ifs in order; each reads only its own flag.
RECURSIVE AchievementLines(_, _, _, _, _, _)
AchievementLines(ach, i, wonGame, sc, hints, timeTaken) ==
    IF i >= numAchievements
    THEN << >>
    ELSE (IF Unlocks(ach, i, AchievementCondition(i, wonGame, sc, hints, timeTaken))
          THEN << achievementLine(i) >>
          ELSE << >>)
         \o AchievementLines(ach, i + 1, wonGame, sc, hints, timeTaken)

updateAchievements(ach, ann, wonGame, sc, hints, timeTaken) ==
    [achieved |->
        [i \in AchievementIds |->
            IF Unlocks(ach, i, AchievementCondition(i, wonGame, sc, hints, timeTaken))
            THEN TRUE ELSE ach[i]],
     announced |->
        [i \in AchievementIds |->
            IF Unlocks(ach, i, AchievementCondition(i, wonGame, sc, hints, timeTaken))
            THEN ann[i] + 1 ELSE ann[i]],
     out |-> AchievementLines(ach, 0, wonGame, sc, hints, timeTaken)]

----------------------------------------------------------------------------
(* The initial state: main() before line 159.                              *)

InitProgram ==
    /\ pc = "start"
    /\ score = 0
    /\ highestScore = 0
    /\ streak = 0
    /\ maxStreak = 0
    /\ words = << >>
    /\ wordCount = 0
    /\ achieved = [i \in AchievementIds |-> FALSE]
    /\ announced = [i \in AchievementIds |-> 0]
    /\ word = << >>
    /\ attemptsLeft = 0
    /\ hintsUsed = 0
    /\ guess = << >>
    /\ cinFail = FALSE
    /\ load = NoLoad
    /\ maxSlot = -1
    /\ out = << >>
    /\ difficulty = 0
    /\ anagram = << >>
    /\ j = 0

\* dictionary.txt is missing or empty, or holds MaxDictLen tokens.
Init ==
    /\ InitProgram
    /\ dictLen \in {0, MaxDictLen}
    /\ dict2Len = MaxDictLen

\* The file sizes around the capacity.
StoreFileLens ==
    {0, 1, maxWords - 1, maxWords} \cup ((maxWords + 1)..(maxWords + MaxExtra))

InitStore ==
    /\ InitProgram
    /\ dictLen \in StoreFileLens
    /\ dict2Len \in StoreFileLens

\* A token of n letters, as `file >> words[count]` extracts it (never empty).
WordOfLength(n) == [i \in 1..n |-> "a"]

FilterWords == { WordOfLength(n) : n \in 1..MaxWordLen }

RECURSIVE WordLists(_)
WordLists(n) ==
    IF n = 0
    THEN { << >> }
    ELSE LET shorter == WordLists(n - 1)
         IN shorter \cup { Append(l, w) : l \in { x \in shorter : Len(x) = n - 1 },
                                           w \in FilterWords }

\* main() after the initial load (lines 154-159) of a dictionary.txt that
\* holds any list of up to MaxListLen words.
InitFilter ==
    /\ pc = "top"
    /\ score = 0
    /\ highestScore = 0
    /\ streak = 0
    /\ maxStreak = 0
    /\ words \in WordLists(MaxListLen)
    /\ wordCount = Len(words)
    /\ achieved = [i \in AchievementIds |-> FALSE]
    /\ announced = [i \in AchievementIds |-> 0]
    /\ word = << >>
    /\ attemptsLeft = 0
    /\ hintsUsed = 0
    /\ guess = << >>
    /\ cinFail = FALSE
    /\ load = NoLoad
    /\ maxSlot = wordCount
    /\ out = << >>
    /\ difficulty = 0
    /\ anagram = << >>
    /\ j = 0
    /\ dictLen = wordCount
    /\ dict2Len = 0

\* The letters of the words given to scrambleWord under SpecScramble.
ScrambleLetters == {"a", "b", "c"}

ScrambleWords ==
    UNION { [1..n -> ScrambleLetters] : n \in 1..MaxScrambleLen }

\* scrambleWord(word) called on any non-empty word, at line 606: anagram is
\* a copy of word and the loop is about to start.
InitScramble ==
    /\ pc = "scramble"
    /\ score = 0
    /\ highestScore = 0
    /\ streak = 0
    /\ maxStreak = 0
    /\ words = << >>
    /\ wordCount = 0
    /\ achieved = [i \in AchievementIds |-> FALSE]
    /\ announced = [i \in AchievementIds |-> 0]
    /\ word \in ScrambleWords
    /\ attemptsLeft = 0
    /\ hintsUsed = 0
    /\ guess = << >>
    /\ cinFail = FALSE
    /\ load = NoLoad
    /\ maxSlot = -1
    /\ out = << >>
    /\ difficulty = 0
    /\ anagram = word
    /\ j = 0
    /\ dictLen = 0
    /\ dict2Len = 0

----------------------------------------------------------------------------
(* Steps of main(), lines 129-240.                                         *)

\* The locals of playGame(score, ...) are gone once it returns.
RoundLocalsGone ==
    /\ difficulty' = 0
    /\ word' = << >>
    /\ attemptsLeft' = 0
    /\ hintsUsed' = 0
    /\ guess' = << >>

\* The call loadWords("dictionary.txt", words) at line 159.
LoadInitial ==
    /\ pc = "start"
    /\ \E opened \in BOOLEAN :
         load' = LoadCall("dictionary.txt", IF opened THEN dictLen ELSE 0, 0)
    /\ pc' = "loading"
    /\ out' = << >>
    /\ UNCHANGED << score, highestScore, streak, maxStreak, words, wordCount,
                    achieved, announced, word, attemptsLeft, hintsUsed, guess,
                    cinFail, dictLen, dict2Len, maxSlot >>
    /\ UNCHANGED << difficulty, anagram, j >>

\* One pass of the loop at lines 592-596 that goes round again: a token is
\* extracted into words[count] and count is below maxWords.
LoadNextWord ==
    /\ pc = "loading"
    /\ load.read < load.avail
    /\ InCapacity(load.count)
    /\ words' = StoreAt(words, load.count, FileToken(load.file, load.read + 1))
    /\ maxSlot' = IF load.count > maxSlot THEN load.count ELSE maxSlot
    /\ load' = [load EXCEPT !.read = @ + 1, !.count = @ + 1]
    /\ UNCHANGED << pc, score, highestScore, streak, maxStreak, wordCount,
                    achieved, announced, word, attemptsLeft, hintsUsed, guess,
                    cinFail, dictLen, dict2Len, out >>
    /\ UNCHANGED << difficulty, anagram, j >>

\* The last evaluation of the loop condition and the return (lines 592-599),
\* then the caller: main line 159, or displayShop lines 562-579.  The
\* condition evaluates words[count] whatever count is.  When a token is left
\* and count is not below maxWords, the token is extracted into a slot
\* outside the array: undefined behaviour, after which the program runs on
\* or dies.
LoadReturn ==
    /\ pc = "loading"
    /\ ~(load.read < load.avail /\ InCapacity(load.count))
    /\ maxSlot' = IF load.count > maxSlot THEN load.count ELSE maxSlot
    /\ \E dies \in BOOLEAN :
         /\ dies => load.read < load.avail
         /\ IF dies
            THEN /\ pc' = "crashed"
                 /\ UNCHANGED << wordCount, out, load >>
            ELSE /\ pc' = "top"
                 /\ load' = NoLoad
                 /\ IF load.file = "dictionary.txt"
                    THEN /\ wordCount' = loadedCount(load)
                         /\ UNCHANGED out
                    ELSE /\ wordCount' = wordCount + loadedCount(load)
                         /\ out' = << "new words added!",
                                      "Press \"Enter\" to continue." >>
    /\ UNCHANGED << score, highestScore, streak, maxStreak, words,
                    achieved, announced, word, attemptsLeft, hintsUsed, guess,
                    cinFail, dictLen, dict2Len >>
    /\ UNCHANGED << difficulty, anagram, j >>

\* playGame() at the top of the main loop (lines 168 and 728-753), then
\* displayMenu.
PlayGamePlaceholder ==
    /\ pc = "top"
    /\ LET r == updateAchievements(achieved, announced, TRUE, 0 + 10, 0, 25)
       IN /\ achieved' = r.achieved
          /\ announced' = r.announced
          /\ out' = r.out \o << "Achievements:", "Choose an option from the menu" >>
    /\ pc' = "menu"
    /\ UNCHANGED << score, highestScore, streak, maxStreak, words, wordCount,
                    word, attemptsLeft, hintsUsed, guess, cinFail, dictLen, dict2Len,
                    load, maxSlot >>
    /\ UNCHANGED << difficulty, anagram, j >>

\* The while loop at lines 180-190: the extraction of option fails, because
\* the entry is no number or because cin had failed before.
MenuNonNumeric ==
    /\ pc = "menu"
    /\ cinFail' = FALSE
    /\ out' = << "Invalid selection. Please enter a number: " >>
    /\ UNCHANGED << pc, score, highestScore, streak, maxStreak, words, wordCount,
                    achieved, announced, word, attemptsLeft, hintsUsed, guess,
                    dictLen, dict2Len, load, maxSlot >>
    /\ UNCHANGED << difficulty, anagram, j >>

\* The default case, lines 228-234.
MenuInvalid ==
    /\ pc = "menu"
    /\ ~cinFail
    /\ \E option \in MenuOptions : option \notin {1, 2, 3}
    /\ out' = << "Invalid selection. Please enter a number between 1 and 3." >>
    /\ pc' = "top"
    /\ UNCHANGED << score, highestScore, streak, maxStreak, words, wordCount,
                    achieved, announced, word, attemptsLeft, hintsUsed, guess, cinFail,
                    dictLen, dict2Len, load, maxSlot >>
    /\ UNCHANGED << difficulty, anagram, j >>

\* Case 3, lines 217-225.
MenuExit ==
    /\ pc = "menu"
    /\ ~cinFail
    /\ out' = << "Exiting the game." >>
    /\ pc' = "done"
    /\ UNCHANGED << score, highestScore, streak, maxStreak, words, wordCount,
                    achieved, announced, word, attemptsLeft, hintsUsed, guess, cinFail,
                    dictLen, dict2Len, load, maxSlot >>
    /\ UNCHANGED << difficulty, anagram, j >>

\* Case 1, lines 196-206: getDifficultyChoice (lines 306-320) and playGame
\* (lines 419-471) up to the first prompt for a guess.  A difficulty entry
\* that is no number stores 0 and sets cin's failbit.
MenuPlay ==
    /\ pc = "menu"
    /\ ~cinFail
    /\ highestScore < MaxScore
    /\ \E numeric \in BOOLEAN, entry \in Difficulties :
         /\ numeric \/ entry = 0
         /\ cinFail' = ~numeric
         /\ IF wordCount = 0
            THEN /\ out' = << "Error: No words loaded from the dictionary files." >>
                 /\ pc' = "top"
                 /\ UNCHANGED << difficulty, word, attemptsLeft, hintsUsed, guess >>
            ELSE LET filteredWords == filterWordsByDifficulty(words, wordCount, entry)
                     filteredCount == Len(filteredWords)
                 IN IF filteredCount = 0
                    THEN /\ out' = << "No words available for the selected difficulty level." >>
                         /\ pc' = "top"
                         /\ UNCHANGED << difficulty, word, attemptsLeft, hintsUsed, guess >>
                    ELSE /\ \E r \in 0..(filteredCount - 1) : word' = filteredWords[r + 1]
                         /\ difficulty' = entry
                         /\ attemptsLeft' = 3
                         /\ hintsUsed' = 0
                         /\ guess' = << >>
                         /\ out' = << "Anagram of the word is: " >>
                         /\ pc' = "guess"
    /\ UNCHANGED << score, highestScore, streak, maxStreak, words, wordCount,
                    achieved, announced, dictLen, dict2Len, load, maxSlot >>
    /\ UNCHANGED << anagram, j >>

\* Case 2, lines 209-214: displayShop, lines 544-562, up to the call of
\* loadWords.  limit bounds the store size at which the player still asks
\* for more words.  A shop entry that is no number stores 0 and sets cin's
\* failbit.
displayShop(limit) ==
    /\ pc = "menu"
    /\ ~cinFail
    /\ \E numeric \in BOOLEAN, shopOption \in ShopOptions :
         /\ numeric \/ shopOption = 0
         /\ cinFail' = ~numeric
         /\ IF shopOption = 1
            THEN /\ wordCount < limit
                 /\ \E opened \in BOOLEAN :
                      load' = LoadCall("dictionary2.txt",
                                       IF opened THEN dict2Len ELSE 0, wordCount)
                 /\ pc' = "loading"
                 /\ out' = << "Welcome to the shop." >>
            ELSE /\ out' = << "Exiting the shop.", "Press \"Enter\" to continue." >>
                 /\ pc' = "top"
                 /\ UNCHANGED load
    /\ UNCHANGED << score, highestScore, streak, maxStreak, words, wordCount,
                    achieved, announced, word, attemptsLeft, hintsUsed, guess,
                    dictLen, dict2Len, maxSlot >>
    /\ UNCHANGED << difficulty, anagram, j >>

MenuShop == displayShop(MaxStoreWords)

MenuShopAnySize == displayShop(maxWords + 1)

----------------------------------------------------------------------------
(* One pass of the guessing loop, lines 474-541.                           *)

\* cin >> guess: a failed cin leaves guess as it was.
GuessRead(typed) == IF cinFail THEN guess ELSE typed

\* guess == "hint": useHint, lines 374-416.  When cin has failed, the
\* extraction into the uninitialized hintChoice writes nothing, and the
\* branches read whatever the int held.
GuessHint ==
    /\ pc = "guess"
    /\ score < MaxHintScore
    /\ \E typed \in GuessInputs(word) :
         /\ GuessRead(typed) = hintWord
         /\ guess' = GuessRead(typed)
    /\ IF hintLimitReached(hintsUsed)
       THEN /\ out' = << "You have used all available hints for this word." >>
            /\ UNCHANGED << hintsUsed, score, cinFail >>
       ELSE \E numeric \in BOOLEAN, c \in HintChoices \cup IntValues :
              /\ IF cinFail THEN c \in IntValues
                 ELSE c \in HintChoices /\ (numeric \/ c = 0)
              /\ cinFail' = (cinFail \/ ~numeric)
              /\ LET r == useHintChoice(hintsUsed, score, c)
                 IN /\ hintsUsed' = r.hintsUsed
                    /\ score' = r.score
                    /\ out' = r.out
    /\ UNCHANGED << pc, highestScore, streak, maxStreak, words, wordCount,
                    achieved, announced, word, attemptsLeft, dictLen, dict2Len,
                    load, maxSlot >>
    /\ UNCHANGED << difficulty, anagram, j >>

\* guess == word, lines 491-519; the loop ends and playGame returns.
GuessCorrect ==
    /\ pc = "guess"
    /\ \E typed \in GuessInputs(word) :
         /\ GuessRead(typed) # hintWord
         /\ GuessRead(typed) = word
    /\ LET r == correctGuess(word, score, highestScore, streak, maxStreak)
       IN /\ streak' = r.streak
          /\ maxStreak' = r.maxStreak
          /\ score' = r.score
          /\ highestScore' = r.highestScore
    /\ out' = << "Correct! You earned ", "Press \"Enter\" to continue." >>
    /\ pc' = "top"
    /\ RoundLocalsGone
    /\ UNCHANGED << words, wordCount, achieved, announced, cinFail, dictLen,
                    dict2Len, load, maxSlot >>
    /\ UNCHANGED << anagram, j >>

\* Any other guess, lines 520-528; with no attempt left the loop ends,
\* handleGameOver runs (lines 532-535) and playGame returns.
GuessIncorrect ==
    /\ pc = "guess"
    /\ \E typed \in GuessInputs(word) :
         /\ GuessRead(typed) # hintWord
         /\ GuessRead(typed) # word
         /\ LET r == incorrectGuess(attemptsLeft, streak)
            IN /\ streak' = r.streak
               /\ IF r.attemptsLeft > 0
                  THEN /\ attemptsLeft' = r.attemptsLeft
                       /\ guess' = GuessRead(typed)
                       /\ out' = << "Incorrect guess. Attempts left: " >>
                       /\ UNCHANGED << pc, score, difficulty, word, hintsUsed >>
                  ELSE /\ score' = handleGameOver(score)
                       /\ out' = << "Incorrect guess. Attempts left: ",
                                    "Game Over! The correct answer was ",
                                    "Press \"Enter\" to continue." >>
                       /\ pc' = "top"
                       /\ RoundLocalsGone
    /\ UNCHANGED << highestScore, maxStreak, words, wordCount, achieved, announced,
                    cinFail, dictLen, dict2Len, load, maxSlot >>
    /\ UNCHANGED << anagram, j >>

----------------------------------------------------------------------------
(* scrambleWord, lines 603-620.                                            *)

swapOverwrite(s, a, b) == [i \in 1..Len(s) |-> IF i = a + 1 THEN s[b + 1] ELSE s[i]]

\* swap(anagram[j], anagram[k]), line 615, on 0-based positions a and b.
swapChars(s, a, b) ==
    [i \in 1..Len(s) |-> IF i = a + 1 THEN s[b + 1]
                         ELSE IF i = b + 1 THEN s[a + 1]
                         ELSE s[i]]

\* One iteration of the loop, lines 609-616; k is rand() % word.length().
ScrambleStep ==
    /\ pc = "scramble"
    /\ j < Len(word)
    /\ \E k \in 0..(Len(word) - 1) : anagram' = swapChars(anagram, j, k)
    /\ j' = j + 1
    /\ UNCHANGED << pc, score, highestScore, streak, maxStreak, words, wordCount,
                    achieved, announced, word, attemptsLeft, hintsUsed, guess,
                    cinFail, dictLen, dict2Len, load, maxSlot, out, difficulty >>

\* The loop is over: return anagram, line 619.
ScrambleReturn ==
    /\ pc = "scramble"
    /\ ~(j < Len(word))
    /\ pc' = "scrambled"
    /\ UNCHANGED << score, highestScore, streak, maxStreak, words, wordCount,
                    achieved, announced, word, attemptsLeft, hintsUsed, guess,
                    cinFail, dictLen, dict2Len, load, maxSlot, out, difficulty,
                    anagram, j >>

----------------------------------------------------------------------------
(* Specifications.                                                         *)

\* A session with small dictionary files.
Next ==
    \/ LoadInitial
    \/ LoadNextWord
    \/ LoadReturn
    \/ PlayGamePlaceholder
    \/ MenuNonNumeric
    \/ MenuInvalid
    \/ MenuExit
    \/ MenuPlay
    \/ MenuShop
    \/ GuessHint
    \/ GuessCorrect
    \/ GuessIncorrect

Spec == Init /\ [][Next]_vars

\* A session of loads only, with files around the capacity of the store.
NextStore ==
    \/ LoadInitial
    \/ LoadNextWord
    \/ LoadReturn
    \/ PlayGamePlaceholder
    \/ MenuNonNumeric
    \/ MenuInvalid
    \/ MenuExit
    \/ MenuShopAnySize

SpecStore == InitStore /\ [][NextStore]_vars

\* Games on any small store, lost or not entered: the filter of playGame
\* on every word list.
NextFilter ==
    \/ PlayGamePlaceholder
    \/ MenuPlay
    \/ GuessIncorrect

SpecFilter == InitFilter /\ [][NextFilter]_vars

\* Calls of scrambleWord on every small word, with every choice of k.
NextScramble ==
    \/ ScrambleStep
    \/ ScrambleReturn

SpecScramble == InitScramble /\ [][NextScramble]_vars

\* Games without the shop, played by a player who, whenever the program
\* is ready to read a guess, sooner or later types something other than
\* "hint".
NextRounds ==
    \/ LoadInitial
    \/ LoadNextWord
    \/ LoadReturn
    \/ PlayGamePlaceholder
    \/ MenuPlay
    \/ GuessHint
    \/ GuessCorrect
    \/ GuessIncorrect

SpecRounds ==
    /\ Init
    /\ [][NextRounds]_vars
    /\ WF_vars(GuessCorrect \/ GuessIncorrect)

----------------------------------------------------------------------------
(* Properties.                                                             *)

\* The step wrote this line to cout.
Printed(o, line) == \E i \in 1..Len(o) : o[i] = line

Max(a, b) == IF a > b THEN a ELSE b

\* The step from the current state is a correct guess, a wrong guess, a
\* granted hint, a rejected hint choice: told by what the step printed.
CorrectGuessStep == pc = "guess" /\ Printed(out', "Correct! You earned ")

IncorrectGuessStep == pc = "guess" /\ Printed(out', "Incorrect guess. Attempts left: ")

GameOverStep == pc = "guess" /\ Printed(out', "Game Over! The correct answer was ")

HintGrantedStep == pc = "guess" /\ Printed(out', "Hint cost deducted. Current score: ")

InvalidHintStep == pc = "guess" /\ Printed(out', "Invalid hint choice.")

\* C1: a correct guess of a word of length L at streak s adds exactly
\* L + 2*s to the score, makes the streak s + 1, maxStreak the larger of
\* maxStreak and s + 1, and highestScore the larger of highestScore and the
\* new score, whatever the score was before.
C1_CorrectGuess ==
    [][CorrectGuessStep =>
         /\ score' = score + Len(word) + 2 * streak
         /\ streak' = streak + 1
         /\ maxStreak' = Max(maxStreak, streak + 1)
         /\ highestScore' = Max(highestScore, score')]_vars

\* A correct guess at streak 1 or more that left the score below the
\* highest score has just been scored.
C1_Witness ==
    /\ pc = "top"
    /\ Printed(out, "Correct! You earned ")
    /\ streak >= 2
    /\ score < highestScore

\* C2: a round that ends with the attempts exhausted sets the score to 0
\* and leaves highestScore alone; a round that ends with a correct guess
\* raises the score and never leaves it at 0.
C2_GameOver ==
    [][/\ GameOverStep => score' = 0 /\ highestScore' = highestScore
       /\ CorrectGuessStep => score' > score /\ score' # 0]_vars

\* A round has just been lost, and the score that is now 0 had been
\* positive in the session.
C2_Witness ==
    /\ pc = "top"
    /\ Printed(out, "Game Over! The correct answer was ")
    /\ score = 0
    /\ highestScore > 0

\* C3: every incorrect guess takes exactly one attempt, sets the streak to
\* 0 and leaves maxStreak alone.
C3_IncorrectGuess ==
    [][IncorrectGuessStep =>
         /\ attemptsLeft' = attemptsLeft - 1
         /\ streak' = 0
         /\ maxStreak' = maxStreak]_vars

\* A wrong guess has been made after a won round, and attempts remain.
C3_Witness ==
    /\ pc = "guess"
    /\ Printed(out, "Incorrect guess. Attempts left: ")
    /\ attemptsLeft = 2
    /\ streak = 0
    /\ maxStreak > 0

\* C4: hintsUsed stays in 0..2; within a round the score falls by exactly
\* the cost of the hints granted, so by at most 2; and a request made at
\* hintsUsed = 2 changes neither hintsUsed nor the score.
C4_HintLimit ==
    /\ [](hintsUsed \in 0..maxHintsPerWord)
    /\ [][pc = "guess" /\ pc' = "guess" =>
            /\ score' + hintCost * hintsUsed' = score + hintCost * hintsUsed
            /\ hintsUsed' >= hintsUsed
            /\ hintsUsed = maxHintsPerWord =>
                 hintsUsed' = maxHintsPerWord /\ score' = score]_vars

\* A hint was asked for with both hints used up.
C4_Witness ==
    /\ pc = "guess"
    /\ hintsUsed = maxHintsPerWord
    /\ out = << "You have used all available hints for this word." >>

\* C5: a granted hint adds 1 to hintsUsed, takes exactly 1 point whatever
\* the score is, and leaves attemptsLeft, streak, maxStreak and
\* highestScore alone.
C5_HintGranted ==
    [][HintGrantedStep =>
         /\ hintsUsed' = hintsUsed + 1
         /\ score' = score - 1
         /\ UNCHANGED << attemptsLeft, streak, maxStreak, highestScore >>]_vars

\* A hint has been granted and the score is negative.
C5_Witness ==
    /\ pc = "guess"
    /\ Printed(out, "Hint cost deducted. Current score: ")
    /\ score < 0

\* C6: a hint request with a choice other than 1, 2 or 3 changes none of
\* score, hintsUsed, attemptsLeft and streak.
C6_InvalidHint ==
    [][InvalidHintStep =>
         UNCHANGED << score, hintsUsed, attemptsLeft, streak >>]_vars

\* An invalid hint choice has been rejected in a round where a hint had
\* been granted and a guess missed.
C6_Witness ==
    /\ pc = "guess"
    /\ out = << "Invalid hint choice." >>
    /\ hintsUsed = 1
    /\ attemptsLeft = 2

\* C7: once the outcome of a round has been evaluated with the score at 50
\* or more, High Scorer is achieved.
C7_HighScorer == (pc = "menu" /\ score >= 50) => achieved[2]

\* C8: First Win is achieved exactly in the states where a round has been
\* won.  (maxStreak is 0 until the first correct guess and at least 1 ever
\* after.)
C8_FirstWin == achieved[0] <=> maxStreak > 0

\* C9: the four flags start false, a flag that is true stays true, and no
\* achievement's unlock line is written more than once.
C9_OneShot ==
    /\ \A i \in AchievementIds : ~achieved[i]
    /\ [][\A i \in AchievementIds : achieved[i] => achieved'[i]]_vars
    /\ [](\A i \in AchievementIds : announced[i] <= 1)

\* The achievement check has run again after a played round, with First
\* Win unlocked and announced once.
C9_Witness ==
    /\ pc = "menu"
    /\ highestScore > 0
    /\ achieved[0]
    /\ announced[0] = 1

\* C10: the word count of the store, and the count of a running load,
\* never exceed maxWords.
C10_Capacity == wordCount <= maxWords /\ load.count <= maxWords

\* The store is full after loads that were offered more words than fit.
C10_Witness ==
    /\ pc = "menu"
    /\ wordCount = maxWords
    /\ dictLen < maxWords
    /\ dict2Len > maxWords

\* C11: loadWords never evaluates words[i] with i at or beyond maxWords.
C11_SlotsInside == maxSlot < maxWords

\* C12: a load whose stream delivers no token (the file could not be
\* opened) returns 0: the word count and every slot of the store are as
\* they were, for the initial load and for a shop load.
C12_UnopenedFile ==
    [][pc = "loading" /\ load.avail = 0 /\ pc' # "loading" =>
         /\ pc' = "top"
         /\ words' = words
         /\ wordCount' = wordCount]_vars

\* A shop load has returned with the one word of dictionary.txt still the
\* only word of the store, although dictionary2.txt holds a word: the file
\* could not be opened.
C12_Witness ==
    /\ pc = "top"
    /\ Printed(out, "new words added!")
    /\ dictLen = 1
    /\ dict2Len = 1
    /\ wordCount = 1
    /\ words = << DictionaryWords[1] >>

\* The step from the current state enters a round of playGame, or leaves
\* playGame at one of its two early returns (lines 422-426, 433-437).
RoundEnteredStep == pc = "menu" /\ pc' = "guess"

RoundAbortedStep ==
    /\ pc = "menu"
    /\ \/ Printed(out', "Error: No words loaded from the dictionary files.")
       \/ Printed(out', "No words available for the selected difficulty level.")

\* C13: a round is entered only with a non-empty store, a difficulty of 1, 2
\* or 3 and a target word of the store whose length is in that difficulty's
\* band; a game that is not entered selects no word, creates no attempts
\* and no hint count, and leaves score, highestScore, streak and maxStreak
\* as they were.
C13_RoundNotEntered ==
    [][/\ RoundEnteredStep =>
            /\ wordCount > 0
            /\ difficulty' \in 1..3
            /\ \E i \in 0..(wordCount - 1) : Slot(words, i) = word'
            /\ difficulty' = 1 => Len(word') \in 3..5
            /\ difficulty' = 2 => Len(word') \in 6..8
            /\ difficulty' = 3 => Len(word') >= 9
       /\ RoundAbortedStep =>
            /\ pc' = "top"
            /\ word' = << >>
            /\ attemptsLeft' = 0
            /\ hintsUsed' = 0
            /\ UNCHANGED << score, highestScore, streak, maxStreak >>]_vars

\* A game that was not entered for want of a word of the chosen difficulty,
\* in a session that has a score and a streak to lose.
C13_Witness ==
    /\ pc = "top"
    /\ Printed(out, "No words available for the selected difficulty level.")
    /\ wordCount = 2
    /\ score > 0
    /\ streak > 0

\* C14: highestScore and maxStreak never decrease, and streak and maxStreak
\* are never negative.
C14_Monotone ==
    /\ [](streak >= 0 /\ maxStreak >= 0)
    /\ [][highestScore' >= highestScore /\ maxStreak' >= maxStreak]_vars

\* A win that leaves the score below the best score and the streak below the
\* best streak.
C14_Witness ==
    /\ pc = "top"
    /\ Printed(out, "Correct! You earned ")
    /\ score < highestScore
    /\ streak < maxStreak

\* C15: every incorrect guess takes exactly one point off the score.
C15_WrongGuessCostsPoint == [][IncorrectGuessStep => score' = score - 1]_vars

\* C19: the streak is one more after a correct guess, 0 after an incorrect
\* guess (so 0 after a game over), and what it was after every other step
\* (a hint, a game that is not entered, a shop load, a menu entry); the
\* bonus of a correct guess is twice the streak before it.
C19_Streak ==
    [][/\ CorrectGuessStep =>
            /\ streak' = streak + 1
            /\ score' - score = Len(word) + 2 * streak
       /\ IncorrectGuessStep => streak' = 0
       /\ GameOverStep => streak' = 0
       /\ ~CorrectGuessStep /\ ~IncorrectGuessStep => streak' = streak]_vars

\* A round after a win, with a hint taken in it and a shop load behind it,
\* in a session whose best streak was three.
C19_Witness ==
    /\ pc = "guess"
    /\ streak = 1
    /\ maxStreak = 3
    /\ hintsUsed = 1
    /\ wordCount = 4

\* C20: after "Invalid hint choice." the round waits for a guess with cin
\* in a good state, and the next guess can be read and judged.
C20_GuessAfterInvalidHint ==
    (pc = "guess" /\ Printed(out, "Invalid hint choice.")) =>
        /\ ~cinFail
        /\ ENABLED (GuessCorrect \/ GuessIncorrect)

\* C16: for every store and each of the three bands, the filter returns, in
\* store order, exactly the words of 3..5 letters (Easy), of 6..8 letters
\* (Medium), of 9 letters or more (Hard); a word of fewer than 3 letters is
\* in no result, and no word is in the results of two bands.
C16_FilterBands ==
    LET store == [i \in 1..wordCount |-> Slot(words, i - 1)]
        result(d) == filterWordsByDifficulty(words, wordCount, d)
        Easy(w) == Len(w) \in 3..5
        Medium(w) == Len(w) \in 6..8
        Hard(w) == Len(w) >= 9
        Members(q) == { q[i] : i \in 1..Len(q) }
    IN /\ result(1) = SelectSeq(store, Easy)
       /\ result(2) = SelectSeq(store, Medium)
       /\ result(3) = SelectSeq(store, Hard)
       /\ \A d \in 1..3 : \A w \in Members(result(d)) : Len(w) >= 3
       /\ Members(result(1)) \cap Members(result(2)) = {}
       /\ Members(result(1)) \cap Members(result(3)) = {}
       /\ Members(result(2)) \cap Members(result(3)) = {}

\* A round on an Easy word of a store that mixes the bands, the words of
\* the band out of length order, with a word too short for any band.
C16_Witness ==
    /\ pc = "guess"
    /\ difficulty = 1
    /\ words = << WordOfLength(5), WordOfLength(2), WordOfLength(3) >>
    /\ word = WordOfLength(3)

\* C17: the string scrambleWord returns has the length of the word it was
\* given and as many of each character, whatever positions the loop drew.
C17_Permutation ==
    LET Count(s, c) == Cardinality({ i \in 1..Len(s) : s[i] = c })
    IN pc = "scrambled" =>
         /\ Len(anagram) = Len(word)
         /\ \A c \in ScrambleLetters : Count(anagram, c) = Count(word, c)

\* A word of three different letters returned as it was given.
C17_Witness ==
    /\ pc = "scrambled"
    /\ word = << "a", "b", "c" >>
    /\ anagram = word

\* The step from the current state is a hint request: granted, rejected for
\* its choice, or refused at the limit.
HintRequestStep ==
    \/ HintGrantedStep
    \/ InvalidHintStep
    \/ pc = "guess" /\ Printed(out', "You have used all available hints for this word.")

\* The shape of a round: it starts with 3 attempts and no hint used, keeps
\* attemptsLeft in 0..3, ends at a correct guess and at the incorrect guess
\* that finds one attempt left, in no other way and never in both, and a
\* hint request neither takes an attempt nor ends it.
C18_RoundShape ==
    /\ [](attemptsLeft \in 0..3)
    /\ [][/\ RoundEnteredStep => attemptsLeft' = 3 /\ hintsUsed' = 0
          /\ CorrectGuessStep => pc' = "top" /\ ~GameOverStep
          /\ IncorrectGuessStep =>
               IF attemptsLeft = 1
               THEN pc' = "top" /\ GameOverStep
               ELSE pc' = "guess" /\ ~GameOverStep /\ attemptsLeft' = attemptsLeft - 1
          /\ pc = "guess" /\ pc' # "guess" => CorrectGuessStep \/ GameOverStep
          /\ HintRequestStep => pc' = "guess" /\ attemptsLeft' = attemptsLeft]_vars

\* C18: a round has the shape above, and once the player stops asking for
\* hints it ends.
C18_RoundEnds == C18_RoundShape /\ (pc = "guess" ~> pc = "top")

\* C21: in every reachable state highestScore is at least the score and at
\* least 0.
C21_HighestScore == highestScore >= score /\ highestScore >= 0

\* A first win on a six-letter word after two hints in the round: the score
\* went below 0 and the win made highestScore the new score.
C21_Witness ==
    /\ pc = "top"
    /\ Printed(out, "Correct! You earned ")
    /\ maxStreak = 1
    /\ score = 4
    /\ highestScore = 4

\* C22: whenever the program is ready to read a guess, typing the target
\* word is a correct guess that ends the round as a win, whatever the
\* target is.
C22_TargetWins == (pc = "guess" /\ ~cinFail) => ENABLED GuessCorrect

====
